---------------------------- MODULE Spec2Model ----------------------------
(***************************************************************************)
(* Activity recommendation core of the travel planning application:       *)
(*   OpenMeteoClient.getForecast   -> the forecast source                  *)
(*   WeatherService                -> getForecast / getAverageForecast     *)
(*   ActivityRanker                -> score* / rankActivities              *)
(*   ActivityService               -> rankActivitiesForCity                *)
(*   CityService                   -> searchCities                         *)
(*   resolvers.Query               -> forecast / activityRanking           *)
(*                                                                         *)
(* A JavaScript number is modelled as an exact fraction [num, den] in      *)
(* lowest terms with den > 0; den = 0 /\ num = 0 is NaN (the value of      *)
(* 0 / 0), and den = 0 /\ num = +-1 is +-Infinity.  The daily values the   *)
(* model draws are small integers and halves, for which the double sums    *)
(* are exact and the correctly rounded quotient sum / n compares with the  *)
(* thresholds of the ranker as the exact quotient does.                    *)
(***************************************************************************)
EXTENDS Integers, Sequences, FiniteSets, TLC

VARIABLES
    op,          \* the operation the caller invoked ("none" when idle)
    coords,      \* its (latitude, longitude) arguments, <<>> when it has none
    weather,     \* the WeatherData handed to ActivityRanker.rankActivities
    stack,       \* the async frames still awaiting, innermost last
    settled,     \* outcome of the innermost settled promise
    forecastData,\* what the forecast source returned for this operation
    clientCalls, \* arguments of the client.getForecast calls of this operation
    cityId,      \* the cityId argument of a resolver call, as a sequence of characters
    reqs,        \* the ranking requests served concurrently, by request
    query,       \* the query argument of a city search, as a sequence of characters
    searchCalls, \* arguments of the client.searchCities calls of this operation
    searchBody,  \* what the location source answered for this operation
    observations \* the DailyForecast array getForecast built for this operation

vars == <<op, coords, weather, stack, settled, forecastData, clientCalls, cityId, reqs,
          query, searchCalls, searchBody, observations>>

\* the variables of a city search
search == <<query, searchCalls, searchBody>>

-----------------------------------------------------------------------------
(* Bounds *)

MaxDays == 2

-----------------------------------------------------------------------------
(* JavaScript numbers *)

NaN == [num |-> 0, den |-> 0]

Abs(n) == IF n < 0 THEN -n ELSE n

RECURSIVE GCD(_, _)
GCD(a, b) == IF b = 0 THEN a ELSE GCD(b, a % b)

\* the number n / d (d > 0) in lowest terms
Norm(n, d) ==
    LET g == GCD(Abs(n), d)
    IN  [num |-> n \div g, den |-> d \div g]

Num(n) == [num |-> n, den |-> 1]

Half(n) == Norm(n, 2)

IsNaN(x) == x.den = 0 /\ x.num = 0

IsFinite(x) == x.den > 0

\* a + b
Add(a, b) ==
    IF IsFinite(a) /\ IsFinite(b)
    THEN Norm(a.num * b.den + b.num * a.den, a.den * b.den)
    ELSE IF IsNaN(a) \/ IsNaN(b) \/ a.num # b.num THEN NaN
    ELSE IF IsFinite(a) THEN b ELSE a

\* a / n for an array length n >= 0
Div(a, n) ==
    IF IsNaN(a) THEN NaN
    ELSE IF ~IsFinite(a) THEN a
    ELSE IF n = 0
         THEN (IF a.num = 0 THEN NaN
               ELSE [num |-> (IF a.num > 0 THEN 1 ELSE -1), den |-> 0])
         ELSE Norm(a.num, a.den * n)

\* a < b; every comparison with NaN is false
Lt(a, b) ==
    /\ ~IsNaN(a)
    /\ ~IsNaN(b)
    /\ IF IsFinite(a) /\ IsFinite(b)
       THEN a.num * b.den < b.num * a.den
       ELSE IF IsFinite(a) THEN b.num > 0
       ELSE IF IsFinite(b) THEN a.num < 0
       ELSE a.num < b.num

Gt(a, b) == Lt(b, a)

\* a <= b
Le(a, b) == ~IsNaN(a) /\ ~IsNaN(b) /\ ~Lt(b, a)

Ge(a, b) == Le(b, a)

-----------------------------------------------------------------------------
(* ActivityRanker *)

Activities == <<"SURFING", "SKIING", "OUTDOOR_SIGHTSEEING", "INDOOR_SIGHTSEEING">>

ActivityType == {"SKIING", "SURFING", "INDOOR_SIGHTSEEING", "OUTDOOR_SIGHTSEEING"}

\* the reasons returned as collected, with no fallback text
ReasonsOr_NoFallback(reasons, fallback) == reasons

\* reasons.length > 0 ? reasons : [fallback]
ReasonsOr(reasons, fallback) == IF Len(reasons) > 0 THEN reasons ELSE <<fallback>>

\* a rule step that puts its reason in front of the collected ones
Rule_Unshift(acc, cond, points, text) ==
    IF cond
    THEN [score |-> acc.score + points, reasons |-> <<text>> \o acc.reasons]
    ELSE acc

\* one `if (cond) { score += points; reasons.push(text) }` step
Rule(acc, cond, points, text) ==
    IF cond
    THEN [score |-> acc.score + points, reasons |-> Append(acc.reasons, text)]
    ELSE acc

NoScore == [score |-> 0, reasons |-> <<>>]

\* a surfing score that stops rewarding wind above 30
scoreSurfing_WindCapped(w) ==
    LET a1 == Rule(NoScore, Ge(w.windSpeedMax, Num(25)) /\ Le(w.windSpeedMax, Num(30)), 30,
                   "Strong wind creates rideable swells")
        a2 == Rule(a1, Lt(w.precipitation, Num(2)), 20,
                   "Good visibility, minimal rain")
        a3 == Rule(a2, Gt(w.temperatureMax, Num(18)), 20,
                   "Warm enough for extended water time")
    IN  [score |-> a3.score,
         reasons |-> ReasonsOr(a3.reasons, "Conditions unfavorable: low wind speed")]

scoreSurfing_WindStrict(w) ==
    LET a1 == Rule(NoScore, Gt(w.windSpeedMax, Num(25)), 30,
                   "Strong wind creates rideable swells")
        a2 == Rule(a1, Lt(w.precipitation, Num(2)), 20,
                   "Good visibility, minimal rain")
        a3 == Rule(a2, Gt(w.temperatureMax, Num(18)), 20,
                   "Warm enough for extended water time")
    IN  [score |-> a3.score,
         reasons |-> ReasonsOr(a3.reasons, "Conditions unfavorable: low wind speed")]

scoreSurfing(w) ==
    LET a1 == Rule(NoScore, Ge(w.windSpeedMax, Num(25)), 30,
                   "Strong wind creates rideable swells")
        a2 == Rule(a1, Lt(w.precipitation, Num(2)), 20,
                   "Good visibility, minimal rain")
        a3 == Rule(a2, Gt(w.temperatureMax, Num(18)), 20,
                   "Warm enough for extended water time")
    IN  [score |-> a3.score,
         reasons |-> ReasonsOr(a3.reasons, "Conditions unfavorable: low wind speed")]

\* a skiing score that reads the daily minimum for the snow rule
scoreSkiing_OnTemperatureMin(w) ==
    LET a1 == Rule(NoScore, Lt(w.temperatureMin, Num(5)), 40,
                   "Below freezing - excellent snow conditions")
        a2 == Rule(a1, Gt(w.precipitation, Num(2)), 20,
                   "Fresh snow accumulation expected")
    IN  [score |-> a2.score,
         reasons |-> ReasonsOr(a2.reasons, "Too warm for quality snow conditions")]

scoreSkiing_Inclusive(w) ==
    LET a1 == Rule(NoScore, Le(w.temperatureMax, Num(5)), 40,
                   "Below freezing - excellent snow conditions")
        a2 == Rule(a1, Ge(w.precipitation, Num(2)), 20,
                   "Fresh snow accumulation expected")
    IN  [score |-> a2.score,
         reasons |-> ReasonsOr(a2.reasons, "Too warm for quality snow conditions")]

scoreSkiing(w) ==
    LET a1 == Rule(NoScore, Lt(w.temperatureMax, Num(5)), 40,
                   "Below freezing - excellent snow conditions")
        a2 == Rule(a1, Gt(w.precipitation, Num(2)), 20,
                   "Fresh snow accumulation expected")
    IN  [score |-> a2.score,
         reasons |-> ReasonsOr(a2.reasons, "Too warm for quality snow conditions")]

scoreOutdoorSightseeing_OpenRange(w) ==
    LET a1 == Rule(NoScore, Lt(w.precipitation, Num(1)), 40,
                   "Clear, dry skies perfect for sightseeing")
        a2 == Rule(a1, Gt(w.temperatureMax, Num(18)) /\ Lt(w.temperatureMax, Num(28)), 30,
                   "Comfortable temperature for walking tours")
    IN  [score |-> a2.score,
         reasons |-> ReasonsOr(a2.reasons, "Weather conditions limit outdoor touring")]

scoreOutdoorSightseeing(w) ==
    LET a1 == Rule(NoScore, Lt(w.precipitation, Num(1)), 40,
                   "Clear, dry skies perfect for sightseeing")
        a2 == Rule(a1, Ge(w.temperatureMax, Num(18)) /\ Le(w.temperatureMax, Num(28)), 30,
                   "Comfortable temperature for walking tours")
    IN  [score |-> a2.score,
         reasons |-> ReasonsOr(a2.reasons, "Weather conditions limit outdoor touring")]

scoreIndoorSightseeing_Inclusive(w) ==
    LET a1 == Rule(NoScore, Ge(w.precipitation, Num(4)), 40,
                   "Heavy rain makes indoor activities ideal")
        a2 == Rule(a1, Ge(w.windSpeedMax, Num(30)), 20,
                   "Strong wind suggests indoor entertainment")
    IN  [score |-> a2.score,
         reasons |-> ReasonsOr(a2.reasons, "Outdoor conditions are favorable")]

scoreIndoorSightseeing(w) ==
    LET a1 == Rule(NoScore, Gt(w.precipitation, Num(4)), 40,
                   "Heavy rain makes indoor activities ideal")
        a2 == Rule(a1, Gt(w.windSpeedMax, Num(30)), 20,
                   "Strong wind suggests indoor entertainment")
    IN  [score |-> a2.score,
         reasons |-> ReasonsOr(a2.reasons, "Outdoor conditions are favorable")]

\* Array.prototype.join
RECURSIVE Join(_, _)
Join(strs, sep) ==
    IF Len(strs) = 0 THEN ""
    ELSE IF Len(strs) = 1 THEN strs[1]
    ELSE strs[1] \o sep \o Join(Tail(strs), sep)

\* the sort comparator (a, b) => a.score - b.score, ascending
Compare_Ascending(a, b) == a.score - b.score

\* the sort comparator (a, b) => b.score - a.score
Compare(a, b) == b.score - a.score

\* insertion that puts x before the entries it ties with
RECURSIVE InsertSorted_BeforeTies(_, _)
InsertSorted_BeforeTies(sorted, x) ==
    IF Len(sorted) = 0 THEN <<x>>
    ELSE LET last == sorted[Len(sorted)]
         IN  IF Compare(last, x) >= 0
             THEN Append(InsertSorted_BeforeTies(SubSeq(sorted, 1, Len(sorted) - 1), x), last)
             ELSE Append(sorted, x)

\* x placed into a sorted array after every entry the comparator does not
\* order behind it (Array.prototype.sort is stable)
RECURSIVE InsertSorted(_, _)
InsertSorted(sorted, x) ==
    IF Len(sorted) = 0 THEN <<x>>
    ELSE LET last == sorted[Len(sorted)]
         IN  IF Compare(last, x) > 0
             THEN Append(InsertSorted(SubSeq(sorted, 1, Len(sorted) - 1), x), last)
             ELSE Append(sorted, x)

\* Array.prototype.sort with the comparator Compare
RECURSIVE Sort(_)
Sort(arr) ==
    IF Len(arr) = 0 THEN <<>>
    ELSE InsertSorted(Sort(SubSeq(arr, 1, Len(arr) - 1)), arr[Len(arr)])

ScoreEntry(activity, scored) ==
    [activity |-> activity, score |-> scored.score, reason |-> Join(scored.reasons, " and ")]

\* a ranking whose fourth entry carries the third entry's activity
rankActivities_CopyPaste(w) ==
    LET surfing == scoreSurfing(w)
        skiing == scoreSkiing(w)
        outdoorSightseeing == scoreOutdoorSightseeing(w)
        indoorSightseeing == scoreIndoorSightseeing(w)
        activities == << ScoreEntry("SURFING", surfing),
                         ScoreEntry("SKIING", skiing),
                         ScoreEntry("OUTDOOR_SIGHTSEEING", outdoorSightseeing),
                         ScoreEntry("OUTDOOR_SIGHTSEEING", indoorSightseeing) >>
    IN  Sort(activities)

rankActivities(w) ==
    LET surfing == scoreSurfing(w)
        skiing == scoreSkiing(w)
        outdoorSightseeing == scoreOutdoorSightseeing(w)
        indoorSightseeing == scoreIndoorSightseeing(w)
        activities == << ScoreEntry("SURFING", surfing),
                         ScoreEntry("SKIING", skiing),
                         ScoreEntry("OUTDOOR_SIGHTSEEING", outdoorSightseeing),
                         ScoreEntry("INDOOR_SIGHTSEEING", indoorSightseeing) >>
    IN  Sort(activities)

\* the last ranked activity instead of the first
getRecommendedActivity_Last(w) ==
    LET ranked == rankActivities(w)
    IN  ranked[Len(ranked)].activity

getRecommendedActivity(w) ==
    LET ranked == rankActivities(w)
    IN  ranked[1].activity

-----------------------------------------------------------------------------
(* WeatherService *)

\* the dates of the forecast window, in order
Dates == <<"2026-02-06", "2026-02-07", "2026-02-08", "2026-02-09",
           "2026-02-10", "2026-02-11", "2026-02-12">>

\* transformForecast that reads the daily minimum for both temperatures
transformForecast_MinForMax(data) ==
    [index \in 1..Len(data.daily.time) |->
        [date           |-> data.daily.time[index],
         temperatureMax |-> data.daily.temperature_2m_min[index],
         temperatureMin |-> data.daily.temperature_2m_min[index],
         precipitation  |-> data.daily.precipitation_sum[index],
         windSpeedMax   |-> data.daily.windspeed_10m_max[index]]]

\* time.map((date, index) => ({ date, temperatureMax: temperature_2m_max[index], ... }))
transformForecast(data) ==
    [index \in 1..Len(data.daily.time) |->
        [date           |-> data.daily.time[index],
         temperatureMax |-> data.daily.temperature_2m_max[index],
         temperatureMin |-> data.daily.temperature_2m_min[index],
         precipitation  |-> data.daily.precipitation_sum[index],
         windSpeedMax   |-> data.daily.windspeed_10m_max[index]]]

\* forecast.reduce((sum, day) => sum + day[field], 0), dropping the last day
RECURSIVE SumField_DropLast(_, _)
SumField_DropLast(forecast, field) ==
    IF Len(forecast) <= 1 THEN Num(0)
    ELSE Add(SumField_DropLast(SubSeq(forecast, 1, Len(forecast) - 1), field),
             forecast[Len(forecast) - 1][field])

\* forecast.reduce((sum, day) => sum + day[field], 0)
RECURSIVE SumField(_, _)
SumField(forecast, field) ==
    IF Len(forecast) = 0 THEN Num(0)
    ELSE Add(SumField(SubSeq(forecast, 1, Len(forecast) - 1), field),
             forecast[Len(forecast)][field])

\* Math.round: the nearest integer, the larger one of two equally near
RoundNumber(x) ==
    IF x.den = 0 THEN x ELSE Num((2 * x.num + x.den) \div (2 * x.den))

\* getAverageForecast that rounds each average to a whole number
averageForecast_Rounded(forecast) ==
    [temperatureMax |-> RoundNumber(Div(SumField(forecast, "temperatureMax"), Len(forecast))),
     temperatureMin |-> RoundNumber(Div(SumField(forecast, "temperatureMin"), Len(forecast))),
     precipitation  |-> RoundNumber(Div(SumField(forecast, "precipitation"), Len(forecast))),
     windSpeedMax   |-> RoundNumber(Div(SumField(forecast, "windSpeedMax"), Len(forecast)))]

\* the averages of getAverageForecast, from the resolved forecast
averageForecast(forecast) ==
    LET avgTemp == Div(SumField(forecast, "temperatureMax"), Len(forecast))
        avgTempMin == Div(SumField(forecast, "temperatureMin"), Len(forecast))
        avgPrecip == Div(SumField(forecast, "precipitation"), Len(forecast))
        avgWind == Div(SumField(forecast, "windSpeedMax"), Len(forecast))
    IN  [temperatureMax |-> avgTemp,
         temperatureMin |-> avgTempMin,
         precipitation  |-> avgPrecip,
         windSpeedMax   |-> avgWind]

-----------------------------------------------------------------------------
(* Inputs *)

Coordinates == { <<Half(10481), Half(2681)>>, <<Num(-34), Num(18)>> }

TemperatureMaxValues == {Num(2), Num(18), Num(30)}
TemperatureMinValues == {Num(-5), Num(10)}
PrecipitationValues == {Num(0), Num(8)}
WindSpeedValues == {Num(20), Num(30)}

\* a ForecastData body: parallel arrays, one entry per day
ForecastData(time, tmax, tmin, prec, wind) ==
    [daily |->
        [time               |-> time,
         temperature_2m_max |-> tmax,
         temperature_2m_min |-> tmin,
         precipitation_sum  |-> prec,
         windspeed_10m_max  |-> wind]]

NoForecastData == ForecastData(<<>>, <<>>, <<>>, <<>>, <<>>)

\* messages of the errors the HTTP request can fail with
HttpErrors == {"Network Error", "timeout of 0ms exceeded"}

\* the WeatherData values rankActivities is called with directly
WeatherDatas ==
    [temperatureMax : {Num(4), Num(5), Num(17), Num(18), Num(19), Num(28), Num(29), NaN},
     temperatureMin : {Num(-5), Num(10)},
     precipitation  : {Half(1), Num(1), Half(3), Num(2), Half(5), Num(4), Half(9), NaN},
     windSpeedMax   : {Num(24), Num(25), Num(30), Num(31), NaN}]

NoWeather == [temperatureMax |-> NaN, temperatureMin |-> NaN,
              precipitation |-> NaN, windSpeedMax |-> NaN]

Pending == [status |-> "pending", value |-> <<>>]

Fulfilled(v) == [status |-> "fulfilled", value |-> v]

Rejected(e) == [status |-> "rejected", value |-> e]

\* the requests the server has in flight at once
Requests == {"r1", "r2"}

\* daily observations of the forecasts served to concurrent requests and to
\* resolver calls
SampleDays ==
    { [temperatureMax |-> Num(2), temperatureMin |-> Num(-5),
       precipitation |-> Num(8), windSpeedMax |-> Num(20)],
      [temperatureMax |-> Num(18), temperatureMin |-> Num(10),
       precipitation |-> Num(0), windSpeedMax |-> Num(30)],
      [temperatureMax |-> Num(30), temperatureMin |-> Num(10),
       precipitation |-> Num(0), windSpeedMax |-> Num(40)] }

\* the ForecastData body that carries the given days
ForecastDataOf(days) ==
    ForecastData(SubSeq(Dates, 1, Len(days)),
                 [i \in 1..Len(days) |-> days[i].temperatureMax],
                 [i \in 1..Len(days) |-> days[i].temperatureMin],
                 [i \in 1..Len(days) |-> days[i].precipitation],
                 [i \in 1..Len(days) |-> days[i].windSpeedMax])

\* no answer of the location source yet
NoSearchBody == [received |-> FALSE, hasResults |-> FALSE, results |-> <<>>]

\* a request slot with no call in progress
IdleRequest ==
    [coords |-> <<>>, stack |-> <<>>, settled |-> Pending,
     forecastData |-> [received |-> FALSE, data |-> NoForecastData]]

-----------------------------------------------------------------------------
(* State machine *)

Init ==
    /\ op = "none"
    /\ coords = <<>>
    /\ weather = NoWeather
    /\ stack = <<>>
    /\ settled = Pending
    /\ forecastData = [received |-> FALSE, data |-> NoForecastData]
    /\ clientCalls = <<>>
    /\ cityId = <<>>
    /\ reqs = [r \in Requests |-> IdleRequest]
    /\ query = <<>>
    /\ searchCalls = <<>>
    /\ searchBody = NoSearchBody
    /\ observations = <<>>

Idle == op = "none"

Done == op # "none" /\ stack = <<>> /\ settled.status # "pending"

\* an async entry point that runs down to the HTTP request of
\* OpenMeteoClient.getForecast
StartFetch(name, frames, c) ==
    /\ op' = name
    /\ coords' = c
    /\ stack' = frames \o <<"WeatherService.getForecast", "OpenMeteoClient.getForecast">>
    /\ clientCalls' = Append(clientCalls, c)
    /\ UNCHANGED <<weather, settled, forecastData>>
    /\ UNCHANGED <<cityId, reqs, search, observations>>

\* weatherService.getForecast(latitude, longitude)
CallGetForecast ==
    /\ Idle
    /\ \E c \in Coordinates : StartFetch("getForecast", <<>>, c)

\* weatherService.getAverageForecast(latitude, longitude)
CallGetAverageForecast ==
    /\ Idle
    /\ \E c \in Coordinates :
        StartFetch("getAverageForecast", <<"WeatherService.getAverageForecast">>, c)

\* activityService.rankActivitiesForCity(latitude, longitude)
CallRankActivitiesForCity ==
    /\ Idle
    /\ \E c \in Coordinates :
        StartFetch("rankActivitiesForCity",
                   <<"ActivityService.rankActivitiesForCity",
                     "WeatherService.getAverageForecast">>, c)

Top == stack[Len(stack)]

Pop == SubSeq(stack, 1, Len(stack) - 1)

\* the HTTP request succeeds: return response.data as ForecastData
ClientGetForecastReturns ==
    /\ stack # <<>>
    /\ Top = "OpenMeteoClient.getForecast"
    /\ \E n \in 0..MaxDays :
       \E tmax \in [1..n -> TemperatureMaxValues], tmin \in [1..n -> TemperatureMinValues],
          prec \in [1..n -> PrecipitationValues], wind \in [1..n -> WindSpeedValues] :
            LET data == ForecastData(SubSeq(Dates, 1, n), tmax, tmin, prec, wind)
            IN  /\ settled' = Fulfilled(data)
                /\ forecastData' = [received |-> TRUE, data |-> data]
    /\ stack' = Pop
    /\ UNCHANGED <<op, coords, weather, clientCalls>>
    /\ UNCHANGED <<cityId, reqs, search, observations>>

\* the HTTP request fails and is sent once more
ClientGetForecastThrows_Retry ==
    /\ stack # <<>>
    /\ Top = "OpenMeteoClient.getForecast"
    /\ Len(clientCalls) < 2
    /\ clientCalls' = Append(clientCalls, coords)
    /\ UNCHANGED <<op, coords, weather, stack, settled, forecastData>>
    /\ UNCHANGED <<cityId, reqs, search, observations>>

\* the HTTP request fails: throw new Error(`Failed to fetch forecast: ...`)
ClientGetForecastThrows ==
    /\ stack # <<>>
    /\ Top = "OpenMeteoClient.getForecast"
    /\ \E msg \in HttpErrors :
        settled' = Rejected([name |-> "Error",
                             message |-> "Failed to fetch forecast: " \o msg])
    /\ stack' = Pop
    /\ UNCHANGED <<op, coords, weather, forecastData, clientCalls>>
    /\ UNCHANGED <<cityId, reqs, search, observations>>

\* WeatherService.getForecast after `await this.client.getForecast(...)`
GetForecastResume ==
    /\ stack # <<>>
    /\ Top = "WeatherService.getForecast"
    /\ IF settled.status = "fulfilled"
       THEN /\ observations' = transformForecast(settled.value)
            /\ settled' = Fulfilled(observations')
       ELSE UNCHANGED <<settled, observations>>
    /\ stack' = Pop
    /\ UNCHANGED <<op, coords, weather, forecastData, clientCalls>>
    /\ UNCHANGED <<cityId, reqs, search>>

\* getAverageForecast that takes the days out of the array as it sums them
GetAverageForecastResume_Consuming ==
    /\ stack # <<>>
    /\ Top = "WeatherService.getAverageForecast"
    /\ IF settled.status = "fulfilled"
       THEN /\ settled' = Fulfilled(averageForecast(settled.value))
            /\ observations' = <<>>
       ELSE UNCHANGED <<settled, observations>>
    /\ stack' = Pop
    /\ UNCHANGED <<op, coords, weather, forecastData, clientCalls>>
    /\ UNCHANGED <<cityId, reqs, search>>

\* WeatherService.getAverageForecast after `await this.getForecast(...)`
GetAverageForecastResume ==
    /\ stack # <<>>
    /\ Top = "WeatherService.getAverageForecast"
    /\ settled' = IF settled.status = "fulfilled"
                  THEN Fulfilled(averageForecast(settled.value))
                  ELSE settled
    /\ stack' = Pop
    /\ UNCHANGED <<op, coords, weather, forecastData, clientCalls>>
    /\ UNCHANGED <<cityId, reqs, search, observations>>

\* rankActivitiesForCity with a catch that ranks an unknown weather instead
RankActivitiesForCityResume_Fallback ==
    /\ stack # <<>>
    /\ Top = "ActivityService.rankActivitiesForCity"
    /\ LET weatherData == IF settled.status = "fulfilled" THEN settled.value ELSE NoWeather
           scores == rankActivities(weatherData)
           recommended == scores[1].activity
       IN  /\ weather' = weatherData
           /\ settled' = Fulfilled([scores |-> scores, recommended |-> recommended])
    /\ stack' = Pop
    /\ UNCHANGED <<op, coords, forecastData, clientCalls>>
    /\ UNCHANGED <<cityId, reqs, search, observations>>

\* ActivityService.rankActivitiesForCity after
\* `await this.weatherService.getAverageForecast(...)`
RankActivitiesForCityResume ==
    /\ stack # <<>>
    /\ Top = "ActivityService.rankActivitiesForCity"
    /\ IF settled.status = "fulfilled"
       THEN LET weatherData == settled.value
                scores == rankActivities(weatherData)
                recommended == scores[1].activity
            IN  /\ weather' = weatherData
                /\ settled' = Fulfilled([scores |-> scores, recommended |-> recommended])
       ELSE UNCHANGED <<weather, settled>>
    /\ stack' = Pop
    /\ UNCHANGED <<op, coords, forecastData, clientCalls>>
    /\ UNCHANGED <<cityId, reqs, search, observations>>

\* ranker.rankActivities(weather)
CallRankActivities ==
    /\ Idle
    /\ \E w \in WeatherDatas :
        /\ weather' = w
        /\ settled' = Fulfilled(rankActivities(w))
    /\ op' = "rankActivities"
    /\ UNCHANGED <<coords, stack, forecastData, clientCalls>>
    /\ UNCHANGED <<cityId, reqs, search, observations>>

\* ranker.getRecommendedActivity(weather)
CallGetRecommendedActivity ==
    /\ Idle
    /\ \E w \in WeatherDatas :
        /\ weather' = w
        /\ settled' = Fulfilled(getRecommendedActivity(w))
    /\ op' = "getRecommendedActivity"
    /\ UNCHANGED <<coords, stack, forecastData, clientCalls>>
    /\ UNCHANGED <<cityId, reqs, search, observations>>

\* the caller has its result; the next operation starts from a clean slate
Finish ==
    /\ Done
    /\ op' = "none"
    /\ coords' = <<>>
    /\ weather' = NoWeather
    /\ stack' = <<>>
    /\ settled' = Pending
    /\ forecastData' = [received |-> FALSE, data |-> NoForecastData]
    /\ clientCalls' = <<>>
    /\ cityId' = <<>>
    /\ query' = <<>>
    /\ searchCalls' = <<>>
    /\ searchBody' = NoSearchBody
    /\ observations' = <<>>
    /\ UNCHANGED reqs

Next ==
    \/ CallGetForecast
    \/ CallGetAverageForecast
    \/ CallRankActivitiesForCity
    \/ ClientGetForecastReturns
    \/ ClientGetForecastThrows
    \/ GetForecastResume
    \/ GetAverageForecastResume
    \/ RankActivitiesForCityResume
    \/ CallRankActivities
    \/ CallGetRecommendedActivity
    \/ Finish

Spec == Init /\ [][Next]_vars

-----------------------------------------------------------------------------
(* GraphQL resolvers *)

Digits == <<"0", "1", "2", "3", "4", "5", "6", "7", "8", "9">>

IsDigit(ch) == \E d \in 1..Len(Digits) : Digits[d] = ch

DigitValue(ch) == (CHOOSE d \in 1..Len(Digits) : Digits[d] = ch) - 1

\* String.prototype.split(':')
RECURSIVE Split(_)
Split(chars) ==
    IF \A i \in 1..Len(chars) : chars[i] # ":" THEN <<chars>>
    ELSE LET i == CHOOSE k \in 1..Len(chars) :
                    chars[k] = ":" /\ \A j \in 1..(k - 1) : chars[j] # ":"
         IN  <<SubSeq(chars, 1, i - 1)>> \o Split(SubSeq(chars, i + 1, Len(chars)))

\* chars without its leading white space
RECURSIVE TrimStart(_)
TrimStart(chars) ==
    IF Len(chars) > 0 /\ chars[1] = " " THEN TrimStart(Tail(chars)) ELSE chars

\* the longest prefix of chars made of digits
RECURSIVE DigitPrefix(_)
DigitPrefix(chars) ==
    IF Len(chars) > 0 /\ IsDigit(chars[1])
    THEN <<chars[1]>> \o DigitPrefix(Tail(chars))
    ELSE <<>>

\* the integer a digit string denotes (0 for the empty one)
RECURSIVE DigitsValue(_)
DigitsValue(ds) ==
    IF Len(ds) = 0 THEN 0
    ELSE 10 * DigitsValue(SubSeq(ds, 1, Len(ds) - 1)) + DigitValue(ds[Len(ds)])

RECURSIVE Pow10(_)
Pow10(k) == IF k = 0 THEN 1 ELSE 10 * Pow10(k - 1)

\* parseFloat on strings of digits, signs, '.', ' ' and other characters that
\* start no numeric literal: white space is skipped, then the longest prefix
\* that is a decimal literal is the value, whatever follows it; NaN when there
\* is no such prefix
parseFloat(chars) ==
    LET trimmed == TrimStart(chars)
        signed == Len(trimmed) > 0 /\ trimmed[1] \in {"-", "+"}
        sign == IF signed /\ trimmed[1] = "-" THEN -1 ELSE 1
        body == IF signed THEN Tail(trimmed) ELSE trimmed
        int == DigitPrefix(body)
        rest == SubSeq(body, Len(int) + 1, Len(body))
        frac == IF Len(rest) > 0 /\ rest[1] = "." THEN DigitPrefix(Tail(rest)) ELSE <<>>
    IN  IF Len(int) = 0 /\ Len(frac) = 0 THEN NaN
        ELSE Norm(sign * (DigitsValue(int) * Pow10(Len(frac)) + DigitsValue(frac)),
                  Pow10(Len(frac)))

\* the string of a character sequence
RECURSIVE Text(_)
Text(chars) == IF Len(chars) = 0 THEN "" ELSE chars[1] \o Text(Tail(chars))

\* new InvalidCityIdError(cityId)
InvalidCityIdError(id) ==
    [class |-> "InvalidCityIdError",
     name |-> "GraphQLError",
     code |-> "INVALID_CITY_ID",
     statusCode |-> 400,
     message |-> "Invalid city ID format: \"" \o Text(id)
                 \o "\". Expected format: \"latitude:longitude\" (e.g., \"51.5074:-0.1278\")"]

\* new WeatherFetchError(message)
WeatherFetchError(message) ==
    [class |-> "WeatherFetchError",
     name |-> "GraphQLError",
     code |-> "WEATHER_FETCH_ERROR",
     statusCode |-> 503,
     message |-> message]

DefaultWeatherFetchMessage ==
    "Failed to fetch weather data from OpenMeteo API. Please try again."

\* error instanceof Error
InstanceOfError(e) == "message" \in DOMAIN e

\* parseCoordinates: the coordinates, or the InvalidCityIdError it throws
parseCoordinates(id) ==
    LET parts == Split(id)
    IN  IF Len(parts) # 2 THEN [ok |-> FALSE, error |-> InvalidCityIdError(id)]
        ELSE LET latitude == parseFloat(parts[1])
                 longitude == parseFloat(parts[2])
             IN  IF IsNaN(latitude) \/ IsNaN(longitude)
                 THEN [ok |-> FALSE, error |-> InvalidCityIdError(id)]
                 ELSE IF Lt(latitude, Num(-90)) \/ Gt(latitude, Num(90))
                 THEN [ok |-> FALSE, error |-> InvalidCityIdError(id)]
                 ELSE IF Lt(longitude, Num(-180)) \/ Gt(longitude, Num(180))
                 THEN [ok |-> FALSE, error |-> InvalidCityIdError(id)]
                 ELSE [ok |-> TRUE, latitude |-> latitude, longitude |-> longitude]

\* the decimal digits of a natural number
RECURSIVE NatText(_)
NatText(n) == IF n < 10 THEN Digits[n + 1] ELSE NatText(n \div 10) \o Digits[(n % 10) + 1]

\* Number.prototype.toFixed(2) of a finite number: the nearest multiple of 0.01,
\* the larger one of two equally near
toFixed2(x) ==
    LET neg == x.num < 0
        a == Abs(x.num)
        n == (2 * 100 * a + x.den) \div (2 * x.den)
    IN  (IF neg THEN "-" ELSE "") \o NatText(n \div 100) \o "."
        \o Digits[((n \div 10) % 10) + 1] \o Digits[(n % 10) + 1]

\* the city object both resolvers return
CityOf(id, latitude, longitude) ==
    [id |-> Text(id),
     name |-> toFixed2(latitude) \o "°, " \o toFixed2(longitude) \o "°",
     country |-> "Unknown",
     latitude |-> latitude,
     longitude |-> longitude]

\* cityId arguments, one character per element: well-formed ones, ones with
\* too few or too many parts, non-numeric and half-numeric parts, and values on
\* and beyond the ends of the ranges
CityIds ==
    {
      <<"5", "1", ".", "5", ":", "-", "0", ".", "5">>,
      <<"9", "0", ":", "1", "8", "0">>,
      <<"-", "9", "0", ":", "-", "1", "8", "0">>,
      <<"-", "3", "3", ".", "5", ":", "1", "8", ".", "5">>,
      <<".", "5", ":", "5">>,
      <<"5", ".", ":", "5">>,
      <<"+", "5", ":", "5">>,
      <<" ", "5", ":", "5">>,
      <<"5", "a", ":", "5">>,
      <<"5", ":", "5", "a">>,
      <<"5", ".", "5", ".", "5", ":", "1">>,
      <<>>,
      <<"5">>,
      <<"5", ":", "5", ":", "5">>,
      <<"a", ":", "5">>,
      <<"5", ":", "a">>,
      <<":", "5">>,
      <<"5", ":">>,
      <<"9", "1", ":", "0">>,
      <<"-", "9", "1", ":", "0">>,
      <<"0", ":", "1", "8", "1">>,
      <<"0", ":", "-", "1", "8", "1">>,
      <<"9", "0", ".", "5", ":", "0">>,
      <<"-", ":", "5">>,
      <<".", ":", "5">>,
      <<"a", "5", ":", "5">>,
      <<"5", ";", "5">> }

\* a resolver call: parseCoordinates(cityId), then the service call in the
\* try block down to the HTTP request
StartResolver(name, frames, id) ==
    LET parsed == parseCoordinates(id)
    IN  /\ op' = name
        /\ cityId' = id
        /\ IF parsed.ok
           THEN /\ coords' = <<parsed.latitude, parsed.longitude>>
                /\ stack' = frames \o <<"WeatherService.getForecast",
                                        "OpenMeteoClient.getForecast">>
                /\ clientCalls' = Append(clientCalls, <<parsed.latitude, parsed.longitude>>)
                /\ UNCHANGED settled
           ELSE /\ settled' = Rejected(parsed.error)
                /\ UNCHANGED <<coords, stack, clientCalls>>
        /\ UNCHANGED <<weather, forecastData, reqs, search, observations>>

\* Query.forecast(_, { cityId }, { weatherService })
CallForecast ==
    /\ Idle
    /\ \E id \in CityIds : StartResolver("forecast", <<"resolvers.Query.forecast">>, id)

\* Query.activityRanking(_, { cityId }, { activityService })
CallActivityRanking ==
    /\ Idle
    /\ \E id \in CityIds :
        StartResolver("activityRanking",
                      <<"resolvers.Query.activityRanking",
                        "ActivityService.rankActivitiesForCity",
                        "WeatherService.getAverageForecast">>, id)

\* the HTTP request succeeds, with one of the sample forecasts
ClientGetForecastReturnsSample ==
    /\ stack # <<>>
    /\ Top = "OpenMeteoClient.getForecast"
    /\ \E n \in 0..MaxDays :
       \E days \in [1..n -> SampleDays] :
            LET data == ForecastDataOf(days)
            IN  /\ settled' = Fulfilled(data)
                /\ forecastData' = [received |-> TRUE, data |-> data]
    /\ stack' = Pop
    /\ UNCHANGED <<op, coords, weather, clientCalls, cityId, reqs, search, observations>>

\* a catch block that always throws the WeatherFetchError of the default message
Rethrown_DefaultMessage(prefix, error) ==
    Rejected(WeatherFetchError(DefaultWeatherFetchMessage))

\* the rejection a resolver's catch block turns an error into
Rethrown(prefix, error) ==
    IF InstanceOfError(error)
    THEN Rejected(WeatherFetchError(prefix \o error.message))
    ELSE Rejected(WeatherFetchError(DefaultWeatherFetchMessage))

\* Query.forecast after `await weatherService.getForecast(latitude, longitude)`
ForecastResolverResume ==
    /\ stack # <<>>
    /\ Top = "resolvers.Query.forecast"
    /\ settled' = IF settled.status = "fulfilled"
                  THEN Fulfilled([city |-> CityOf(cityId, coords[1], coords[2]),
                                  daily |-> settled.value])
                  ELSE Rethrown("Could not fetch forecast for coordinates "
                                \o Text(cityId) \o ": ", settled.value)
    /\ stack' = Pop
    /\ UNCHANGED <<op, coords, weather, forecastData, clientCalls, cityId, reqs, search, observations>>

\* Query.activityRanking after
\* `await activityService.rankActivitiesForCity(latitude, longitude)`
ActivityRankingResolverResume ==
    /\ stack # <<>>
    /\ Top = "resolvers.Query.activityRanking"
    /\ settled' = IF settled.status = "fulfilled"
                  THEN Fulfilled([city |-> CityOf(cityId, coords[1], coords[2]),
                                  scores |-> settled.value.scores,
                                  recommended |-> settled.value.recommended])
                  ELSE Rethrown("Could not rank activities: ", settled.value)
    /\ stack' = Pop
    /\ UNCHANGED <<op, coords, weather, forecastData, clientCalls, cityId, reqs, search, observations>>

NextApi ==
    \/ CallForecast
    \/ CallActivityRanking
    \/ ClientGetForecastReturnsSample
    \/ ClientGetForecastThrows
    \/ GetForecastResume
    \/ GetAverageForecastResume
    \/ RankActivitiesForCityResume
    \/ ForecastResolverResume
    \/ ActivityRankingResolverResume
    \/ Finish

SpecApi == Init /\ [][NextApi]_vars

-----------------------------------------------------------------------------
(* CityService *)

MaxResults == 2

\* new CityNotFoundError(query)
CityNotFoundError(q) ==
    [class |-> "CityNotFoundError",
     name |-> "GraphQLError",
     code |-> "CITY_NOT_FOUND",
     statusCode |-> 404,
     message |-> "No cities found matching \"" \o Text(q)
                 \o "\". Try searching for major cities like \"London\", \"Paris\", or \"New York\"."]

\* the white space characters of the queries
IsWhiteSpace(ch) == ch \in {" ", "\t"}

\* String.prototype.trim, which strips nothing
trim_Nothing(chars) == chars

\* String.prototype.trim
RECURSIVE trim(_)
trim(chars) ==
    IF Len(chars) > 0 /\ IsWhiteSpace(chars[1]) THEN trim(Tail(chars))
    ELSE IF Len(chars) > 0 /\ IsWhiteSpace(chars[Len(chars)])
    THEN trim(SubSeq(chars, 1, Len(chars) - 1))
    ELSE chars

\* Number.prototype.toString of an integer
NumberToString(n) == IF n < 0 THEN "-" \o NatText(-n) ELSE NatText(n)

\* transformResult with latitude and longitude swapped
transformResult_SwapsCoordinates(result) ==
    [id        |-> NumberToString(result.id),
     name      |-> result.name,
     country   |-> result.country,
     latitude  |-> result.longitude,
     longitude |-> result.latitude]

\* CityService.transformResult
transformResult(result) ==
    [id        |-> NumberToString(result.id),
     name      |-> result.name,
     country   |-> result.country,
     latitude  |-> result.latitude,
     longitude |-> result.longitude]

\* query arguments, one character per element: empty, blank, and with text
Queries ==
    { <<>>,
      <<" ">>,
      <<" ", "\t", " ">>,
      <<"c", "a", "p">>,
      <<" ", "c", "a", "p", " ">>,
      <<"x", "y", "z">>,
      <<"a", " ", "b">> }

\* results of the geocoding API
SampleResults ==
    { [id |-> 3369157, name |-> "Cape Town", country |-> "South Africa",
       latitude |-> Norm(-339249, 10000), longitude |-> Norm(184241, 10000),
       admin1 |-> "Western Cape"],
      [id |-> 3374330, name |-> "Capetown", country |-> "South Africa",
       latitude |-> Norm(-33925, 1000), longitude |-> Norm(18424, 1000),
       admin1 |-> "Western Cape"],
      [id |-> 0, name |-> "City", country |-> "Country",
       latitude |-> Num(0), longitude |-> Num(0), admin1 |-> ""] }

\* cityService.searchCities(query)
CallSearchCities ==
    /\ Idle
    /\ \E q \in Queries :
        /\ query' = q
        /\ IF Len(q) = 0 \/ Len(trim(q)) = 0
           THEN /\ settled' = Rejected(CityNotFoundError(<<>>))
                /\ UNCHANGED <<stack, searchCalls>>
           ELSE /\ stack' = <<"CityService.searchCities", "OpenMeteoClient.searchCities">>
                /\ searchCalls' = Append(searchCalls, q)
                /\ UNCHANGED settled
    /\ op' = "searchCities"
    /\ UNCHANGED <<coords, weather, forecastData, clientCalls, cityId, reqs, searchBody, observations>>

\* the geocoding request succeeds: return response.data.results || []
ClientSearchCitiesReturns ==
    /\ stack # <<>>
    /\ Top = "OpenMeteoClient.searchCities"
    /\ \E n \in 0..MaxResults, hasResults \in BOOLEAN :
       \E results \in [1..n -> SampleResults] :
            /\ hasResults \/ n = 0
            /\ searchBody' = [received |-> TRUE, hasResults |-> hasResults,
                              results |-> results]
            /\ settled' = Fulfilled(IF hasResults THEN results ELSE <<>>)
    /\ stack' = Pop
    /\ UNCHANGED <<op, coords, weather, forecastData, clientCalls, cityId, reqs,
                   query, searchCalls, observations>>

\* the geocoding request fails: throw new Error(`Failed to search cities: ...`)
ClientSearchCitiesThrows ==
    /\ stack # <<>>
    /\ Top = "OpenMeteoClient.searchCities"
    /\ \E msg \in HttpErrors :
        settled' = Rejected([name |-> "Error",
                             message |-> "Failed to search cities: " \o msg])
    /\ stack' = Pop
    /\ UNCHANGED <<op, coords, weather, forecastData, clientCalls, cityId, reqs, search, observations>>

\* CityService.searchCities after `await this.client.searchCities(query)`
SearchCitiesResume ==
    /\ stack # <<>>
    /\ Top = "CityService.searchCities"
    /\ settled' = IF settled.status # "fulfilled" THEN settled
                  ELSE IF Len(settled.value) = 0
                  THEN Rejected(CityNotFoundError(query))
                  ELSE Fulfilled([i \in 1..Len(settled.value) |->
                                     transformResult(settled.value[i])])
    /\ stack' = Pop
    /\ UNCHANGED <<op, coords, weather, forecastData, clientCalls, cityId, reqs, search, observations>>

NextCity ==
    \/ CallSearchCities
    \/ ClientSearchCitiesReturns
    \/ ClientSearchCitiesThrows
    \/ SearchCitiesResume
    \/ Finish

SpecCity == Init /\ [][NextCity]_vars

-----------------------------------------------------------------------------
(* Ranking requests over forecasts whose averages fall on and next to the
   thresholds of the ranker *)

\* daily observations in halves: pairs of them average to a threshold exactly
\* (wind 25, 30; precipitation 1, 2, 4; temperature 5, 18, 28), to a quarter
\* below it and to a quarter above it
BoundaryDays ==
    { [temperatureMax |-> Half(53), temperatureMin |-> Num(18),
       precipitation |-> Half(1), windSpeedMax |-> Half(45)],
      [temperatureMax |-> Num(25), temperatureMin |-> Num(10),
       precipitation |-> Half(3), windSpeedMax |-> Num(25)],
      [temperatureMax |-> Half(49), temperatureMin |-> Num(10),
       precipitation |-> Num(0), windSpeedMax |-> Half(57)],
      [temperatureMax |-> Half(9), temperatureMin |-> Num(-5),
       precipitation |-> Half(5), windSpeedMax |-> Half(49)],
      [temperatureMax |-> Half(11), temperatureMin |-> Num(-5),
       precipitation |-> Half(9), windSpeedMax |-> Half(61)],
      [temperatureMax |-> Half(23), temperatureMin |-> Num(0),
       precipitation |-> Half(7), windSpeedMax |-> Half(59)],
      [temperatureMax |-> Half(63), temperatureMin |-> Num(20),
       precipitation |-> Half(3), windSpeedMax |-> Half(63)] }

\* the HTTP request succeeds, with a forecast of such days
ClientGetForecastReturnsBoundary ==
    /\ stack # <<>>
    /\ Top = "OpenMeteoClient.getForecast"
    /\ \E n \in 0..MaxDays :
       \E days \in [1..n -> BoundaryDays] :
            LET data == ForecastDataOf(days)
            IN  /\ settled' = Fulfilled(data)
                /\ forecastData' = [received |-> TRUE, data |-> data]
    /\ stack' = Pop
    /\ UNCHANGED <<op, coords, weather, clientCalls, cityId, reqs, search, observations>>

NextBoundary ==
    \/ CallRankActivitiesForCity
    \/ ClientGetForecastReturnsBoundary
    \/ ClientGetForecastThrows
    \/ GetForecastResume
    \/ GetAverageForecastResume
    \/ RankActivitiesForCityResume
    \/ Finish

SpecBoundary == Init /\ [][NextBoundary]_vars

-----------------------------------------------------------------------------
(* Concurrent ranking requests on the shared ActivityService, WeatherService *)
(* and ActivityRanker: every request has its own async frames, the services *)
(* have no field that a call writes                                          *)

single == <<op, coords, weather, stack, settled, forecastData, clientCalls, cityId, search,
           observations>>

\* the value an await of some other request's promise would yield, when one has
\* settled at the same frame
Awaited_LastSettled(r) ==
    LET others == {q \in Requests \ {r} :
                      /\ reqs[q].settled.status # "pending"
                      /\ Len(reqs[q].stack) = Len(reqs[r].stack)}
    IN  IF others = {} THEN reqs[r].settled
        ELSE reqs[CHOOSE q \in others : TRUE].settled

\* the value `await` yields to request r: the outcome of its own promise
Awaited(r) == reqs[r].settled

RequestTop(r) == reqs[r].stack[Len(reqs[r].stack)]

RequestPop(r) == SubSeq(reqs[r].stack, 1, Len(reqs[r].stack) - 1)

\* a request calls activityService.rankActivitiesForCity(latitude, longitude)
RequestStart(r) ==
    /\ reqs[r] = IdleRequest
    /\ \E c \in Coordinates :
        reqs' = [reqs EXCEPT ![r] =
                    [coords |-> c,
                     stack |-> <<"ActivityService.rankActivitiesForCity",
                                 "WeatherService.getAverageForecast",
                                 "WeatherService.getForecast",
                                 "OpenMeteoClient.getForecast">>,
                     settled |-> Pending,
                     forecastData |-> [received |-> FALSE, data |-> NoForecastData]]]
    /\ UNCHANGED single

\* the HTTP request of r succeeds
RequestFetchReturns(r) ==
    /\ reqs[r].stack # <<>>
    /\ RequestTop(r) = "OpenMeteoClient.getForecast"
    /\ \E n \in 0..MaxDays :
       \E days \in [1..n -> SampleDays] :
            LET data == ForecastDataOf(days)
            IN  reqs' = [reqs EXCEPT ![r].settled = Fulfilled(data),
                                     ![r].forecastData = [received |-> TRUE, data |-> data],
                                     ![r].stack = RequestPop(r)]
    /\ UNCHANGED single

\* the HTTP request of r fails
RequestFetchThrows(r) ==
    /\ reqs[r].stack # <<>>
    /\ RequestTop(r) = "OpenMeteoClient.getForecast"
    /\ \E msg \in HttpErrors :
        reqs' = [reqs EXCEPT ![r].settled =
                                Rejected([name |-> "Error",
                                          message |-> "Failed to fetch forecast: " \o msg]),
                             ![r].stack = RequestPop(r)]
    /\ UNCHANGED single

\* WeatherService.getForecast of r resumes
RequestGetForecastResume(r) ==
    /\ reqs[r].stack # <<>>
    /\ RequestTop(r) = "WeatherService.getForecast"
    /\ reqs' = [reqs EXCEPT ![r].settled =
                                IF Awaited(r).status = "fulfilled"
                                THEN Fulfilled(transformForecast(Awaited(r).value))
                                ELSE Awaited(r),
                            ![r].stack = RequestPop(r)]
    /\ UNCHANGED single

\* WeatherService.getAverageForecast of r resumes
RequestGetAverageForecastResume(r) ==
    /\ reqs[r].stack # <<>>
    /\ RequestTop(r) = "WeatherService.getAverageForecast"
    /\ reqs' = [reqs EXCEPT ![r].settled =
                                IF Awaited(r).status = "fulfilled"
                                THEN Fulfilled(averageForecast(Awaited(r).value))
                                ELSE Awaited(r),
                            ![r].stack = RequestPop(r)]
    /\ UNCHANGED single

\* ActivityService.rankActivitiesForCity of r resumes
RequestRankResume(r) ==
    /\ reqs[r].stack # <<>>
    /\ RequestTop(r) = "ActivityService.rankActivitiesForCity"
    /\ reqs' = [reqs EXCEPT ![r].settled =
                                IF Awaited(r).status = "fulfilled"
                                THEN LET weatherData == Awaited(r).value
                                         scores == rankActivities(weatherData)
                                         recommended == scores[1].activity
                                     IN  Fulfilled([scores |-> scores,
                                                    recommended |-> recommended])
                                ELSE Awaited(r),
                            ![r].stack = RequestPop(r)]
    /\ UNCHANGED single

RequestDone(r) == reqs[r].stack = <<>> /\ reqs[r].settled.status # "pending"

\* the response of r has been sent; its slot serves the next request
RequestFinish(r) ==
    /\ RequestDone(r)
    /\ reqs' = [reqs EXCEPT ![r] = IdleRequest]
    /\ UNCHANGED single

NextConcurrent ==
    \E r \in Requests :
        \/ RequestStart(r)
        \/ RequestFetchReturns(r)
        \/ RequestFetchThrows(r)
        \/ RequestGetForecastResume(r)
        \/ RequestGetAverageForecastResume(r)
        \/ RequestRankResume(r)
        \/ RequestFinish(r)

SpecConcurrent == Init /\ [][NextConcurrent]_vars

-----------------------------------------------------------------------------
(* Properties *)

\* the operation returned a ranking
RankingReturned ==
    /\ Done
    /\ op \in {"rankActivities", "rankActivitiesForCity"}
    /\ settled.status = "fulfilled"

\* the ranked ActivityScore sequence that was returned
Scores == IF op = "rankActivitiesForCity" THEN settled.value.scores ELSE settled.value

\* the score the returned ranking gives an activity
ScoreOf(activity) ==
    LET i == CHOOSE k \in 1..Len(Scores) : Scores[k].activity = activity
    IN  Scores[i].score

\* position of an activity in the declaration order
DeclIndex(activity) == CHOOSE k \in 1..Len(Activities) : Activities[k] = activity

MaxScoreOf(activity) ==
    CASE activity = "SURFING" -> 70
      [] activity = "SKIING" -> 60
      [] activity = "OUTDOOR_SIGHTSEEING" -> 70
      [] activity = "INDOOR_SIGHTSEEING" -> 60

\* threshold tests on a number x = num / den, by cross-multiplication; a NaN
\* satisfies none of them
AtLeast(x, t) == x.den > 0 /\ x.num >= t * x.den
AtMost(x, t) == x.den > 0 /\ x.num <= t * x.den
Above(x, t) == x.den > 0 /\ x.num > t * x.den
Below(x, t) == x.den > 0 /\ x.num < t * x.den

Points(cond, points) == IF cond THEN points ELSE 0

\* the source returned a forecast of n days for the running operation
ForecastDays == Len(forecastData.data.daily.time)

RECURSIVE SumTwice(_, _)
\* twice the sum of arr over the index set S (the inputs are integers or halves)
SumTwice(arr, S) ==
    IF S = {} THEN 0
    ELSE LET i == CHOOSE k \in S : TRUE
         IN  arr[i].num * (2 \div arr[i].den) + SumTwice(arr, S \ {i})

\* avg is the arithmetic mean of the n entries of arr
IsMeanOf(avg, arr, n) ==
    /\ avg.den > 0
    /\ 2 * n * avg.num = avg.den * SumTwice(arr, 1..n)

\* C1: for a non-empty forecast, each field of the summary getAverageForecast
\* returns is the arithmetic mean (sum / number of days) of that field's daily
\* values, independently of the other fields.
C1_AverageIsArithmeticMean ==
    (Done /\ op = "getAverageForecast" /\ forecastData.received /\ ForecastDays > 0) =>
        /\ settled.status = "fulfilled"
        /\ IsMeanOf(settled.value.temperatureMax,
                    forecastData.data.daily.temperature_2m_max, ForecastDays)
        /\ IsMeanOf(settled.value.temperatureMin,
                    forecastData.data.daily.temperature_2m_min, ForecastDays)
        /\ IsMeanOf(settled.value.precipitation,
                    forecastData.data.daily.precipitation_sum, ForecastDays)
        /\ IsMeanOf(settled.value.windSpeedMax,
                    forecastData.data.daily.windspeed_10m_max, ForecastDays)

\* a two-day forecast (2, 18 / -5, 10 / 0, 8 / 20, 30) averaged to 10, 2.5, 4, 25
C1_Witness ==
    /\ Done
    /\ op = "getAverageForecast"
    /\ ForecastDays = 2
    /\ settled.status = "fulfilled"
    /\ forecastData.data.daily.temperature_2m_max = <<Num(2), Num(18)>>
    /\ settled.value = [temperatureMax |-> Num(10), temperatureMin |-> Half(5),
                        precipitation |-> Num(4), windSpeedMax |-> Num(25)]

\* C2: on a forecast of zero days getAverageForecast fails (InvalidInput); it
\* never returns a summary.
C2_EmptyForecastFails ==
    (Done /\ op = "getAverageForecast" /\ forecastData.received /\ ForecastDays = 0) =>
        settled.status = "rejected"

\* C3: on a forecast of zero days rankActivitiesForCity fails and returns no
\* scores and no recommended activity.
C3_EmptyForecastNotRanked ==
    (Done /\ op = "rankActivitiesForCity" /\ forecastData.received /\ ForecastDays = 0) =>
        settled.status = "rejected"

\* C4: every returned ActivityScore has an integer score in 0..max of its
\* activity (70, 60, 70, 60) and a non-empty reason.
C4_ScoreInRangeReasonNonEmpty ==
    RankingReturned =>
        \A i \in 1..Len(Scores) :
            /\ Scores[i].score \in 0..MaxScoreOf(Scores[i].activity)
            /\ Scores[i].reason # ""

\* a ranking with a full score and a zero score carrying its fallback reason
C4_Witness ==
    /\ RankingReturned
    /\ \E i, j \in 1..Len(Scores) :
        /\ Scores[i].score = MaxScoreOf(Scores[i].activity)
        /\ Scores[j].score = 0
        /\ Scores[j].reason = "Too warm for quality snow conditions"

C6_SkiingScore ==
    RankingReturned =>
        ScoreOf("SKIING") = Points(Below(weather.temperatureMax, 5), 40)
                            + Points(Above(weather.precipitation, 2), 20)

\* temperatureMax = 5 and precipitation = 2 earn nothing
C6_Witness ==
    /\ RankingReturned
    /\ weather.temperatureMax = Num(5)
    /\ weather.precipitation = Num(2)
    /\ ScoreOf("SKIING") = 0

\* C7: OUTDOOR_SIGHTSEEING = 40 if precipitation < 1, + 30 if
\* 18 <= temperatureMax <= 28 (both endpoints included).
C7_OutdoorScore ==
    RankingReturned =>
        ScoreOf("OUTDOOR_SIGHTSEEING") =
            Points(Below(weather.precipitation, 1), 40)
            + Points(AtLeast(weather.temperatureMax, 18) /\ AtMost(weather.temperatureMax, 28), 30)

\* temperatureMax = 28 with precipitation = 1: the range point only
C7_Witness ==
    /\ RankingReturned
    /\ weather.temperatureMax = Num(28)
    /\ weather.precipitation = Num(1)
    /\ ScoreOf("OUTDOOR_SIGHTSEEING") = 30

\* C8: INDOOR_SIGHTSEEING = 40 if precipitation > 4, + 20 if windSpeedMax > 30,
\* both strict.
C8_IndoorScore ==
    RankingReturned =>
        ScoreOf("INDOOR_SIGHTSEEING") = Points(Above(weather.precipitation, 4), 40)
                                        + Points(Above(weather.windSpeedMax, 30), 20)

\* windSpeedMax = 30 earns nothing next to precipitation 4.5
C8_Witness ==
    /\ RankingReturned
    /\ weather.windSpeedMax = Num(30)
    /\ weather.precipitation = Half(9)
    /\ ScoreOf("INDOOR_SIGHTSEEING") = 40

\* C9: the returned sequence is ordered by score, descending.
C9_SortedDescending ==
    RankingReturned =>
        \A i, j \in 1..Len(Scores) : i < j => Scores[i].score >= Scores[j].score

\* the sort moved the last declared activity to the front
C9_Witness ==
    /\ RankingReturned
    /\ Scores[1].activity = "INDOOR_SIGHTSEEING"
    /\ Scores[1].score > Scores[2].score
    /\ Scores[4].activity = "SURFING"

\* C10: activities with equal scores appear in the order SURFING, SKIING,
\* OUTDOOR_SIGHTSEEING, INDOOR_SIGHTSEEING; four zero scores give that order.
C10_TiesInDeclarationOrder ==
    RankingReturned =>
        /\ \A i, j \in 1..Len(Scores) :
            (i < j /\ Scores[i].score = Scores[j].score) =>
                DeclIndex(Scores[i].activity) < DeclIndex(Scores[j].activity)
        /\ (\A i \in 1..Len(Scores) : Scores[i].score = 0) =>
                [i \in 1..Len(Scores) |-> Scores[i].activity] = Activities

\* a finite summary (17, 2, 24) on which all four activities score 0
C10_Witness ==
    /\ RankingReturned
    /\ IsFinite(weather.temperatureMax)
    /\ IsFinite(weather.precipitation)
    /\ IsFinite(weather.windSpeedMax)
    /\ \A i \in 1..Len(Scores) : Scores[i].score = 0

\* the score the rule table gives an activity on the summary handed to the ranker
TableScore(activity) ==
    CASE activity = "SURFING" ->
            Points(AtLeast(weather.windSpeedMax, 25), 30)
            + Points(Below(weather.precipitation, 2), 20)
            + Points(Above(weather.temperatureMax, 18), 20)
      [] activity = "SKIING" ->
            Points(Below(weather.temperatureMax, 5), 40)
            + Points(Above(weather.precipitation, 2), 20)
      [] activity = "OUTDOOR_SIGHTSEEING" ->
            Points(Below(weather.precipitation, 1), 40)
            + Points(AtLeast(weather.temperatureMax, 18) /\ AtMost(weather.temperatureMax, 28), 30)
      [] activity = "INDOOR_SIGHTSEEING" ->
            Points(Above(weather.precipitation, 4), 40)
            + Points(Above(weather.windSpeedMax, 30), 20)

\* a has the highest table score, and no activity declared before it ties with it
IsTopActivity(a) ==
    \A b \in ActivityType :
        /\ TableScore(a) >= TableScore(b)
        /\ (TableScore(a) = TableScore(b) /\ a # b) => DeclIndex(a) < DeclIndex(b)

\* C11: the recommended activity is the activity of the first ranked entry and
\* has the maximum score of the four, for rankActivitiesForCity and for
\* getRecommendedActivity.
C11_RecommendedIsFirstRanked ==
    /\ (Done /\ op = "rankActivitiesForCity" /\ settled.status = "fulfilled") =>
            /\ settled.value.recommended = settled.value.scores[1].activity
            /\ \A b \in ActivityType : TableScore(settled.value.recommended) >= TableScore(b)
    /\ (Done /\ op = "getRecommendedActivity") =>
            /\ settled.status = "fulfilled"
            /\ IsTopActivity(settled.value)

\* getRecommendedActivity on tempMax 4, precipitation 4.5, wind 31 returns SKIING,
\* which ties at 60 with INDOOR_SIGHTSEEING
C11_Witness ==
    /\ Done
    /\ op = "getRecommendedActivity"
    /\ settled.value = "SKIING"
    /\ TableScore("SKIING") = 60
    /\ TableScore("INDOOR_SIGHTSEEING") = 60

\* C12: the ranked sequence has exactly four entries, one for each of SURFING,
\* SKIING, OUTDOOR_SIGHTSEEING and INDOOR_SIGHTSEEING.
C12_RankingIsPermutation ==
    RankingReturned =>
        /\ Len(Scores) = 4
        /\ \A a \in ActivityType :
            Cardinality({i \in 1..Len(Scores) : Scores[i].activity = a}) = 1
        /\ op = "rankActivitiesForCity" => settled.value.recommended \in ActivityType

\* a ranking that is not in declaration order
C12_Witness ==
    /\ RankingReturned
    /\ Len(Scores) = 4
    /\ Scores[1].activity = "OUTDOOR_SIGHTSEEING"
    /\ Scores[2].activity = "SURFING"
    /\ Scores[3].activity = "INDOOR_SIGHTSEEING"
    /\ Scores[4].activity = "SKIING"

\* wind speeds a summary is raised to
RaisedWindSpeeds ==
    {Num(20), Num(24), Half(49), Num(25), Half(51), Num(30), Half(61), Num(31), Num(40)}

\* the SURFING score of a ranking
SurfingScoreIn(ranking) ==
    LET i == CHOOSE k \in 1..Len(ranking) : ranking[k].activity = "SURFING"
    IN  ranking[i].score

\* C13: with temperatureMax, temperatureMin and precipitation fixed, a summary
\* whose windSpeedMax is at least as high gets a SURFING score at least as high.
C13_SurfingMonotoneInWind ==
    RankingReturned =>
        \A v \in RaisedWindSpeeds :
            Le(weather.windSpeedMax, v) =>
                SurfingScoreIn(rankActivities([weather EXCEPT !.windSpeedMax = v]))
                    >= ScoreOf("SURFING")

\* a summary with wind 25 that already earns the wind points, compared with 40
C13_Witness ==
    /\ RankingReturned
    /\ weather.windSpeedMax = Num(25)
    /\ ScoreOf("SURFING") = 70
    /\ SurfingScoreIn(rankActivities([weather EXCEPT !.windSpeedMax = Num(40)])) = 70

\* C14: when temperatureMax < 5 and precipitation > 2, SKIING scores 60 and is
\* ranked first, whatever the wind speed.
C14_SkiingFirstWhenColdAndSnowy ==
    (RankingReturned /\ Below(weather.temperatureMax, 5) /\ Above(weather.precipitation, 2)) =>
        /\ Scores[1].activity = "SKIING"
        /\ Scores[1].score = 60

\* SKIING ahead of INDOOR_SIGHTSEEING, both at 60
C14_Witness ==
    /\ RankingReturned
    /\ Below(weather.temperatureMax, 5)
    /\ Above(weather.windSpeedMax, 30)
    /\ Scores[1].activity = "SKIING"
    /\ Scores[2].activity = "INDOOR_SIGHTSEEING"
    /\ Scores[2].score = 60

OutdoorConditions ==
    /\ Below(weather.precipitation, 1)
    /\ AtLeast(weather.temperatureMax, 18)
    /\ AtMost(weather.temperatureMax, 28)

\* C15 as stated: when precipitation < 1 and 18 <= temperatureMax <= 28,
\* OUTDOOR_SIGHTSEEING is the first entry of the ranking, for every wind speed.
C15_OutdoorAlwaysFirst ==
    (RankingReturned /\ OutdoorConditions) => Scores[1].activity = "OUTDOOR_SIGHTSEEING"

\* C15 (amended): when precipitation < 1 and 18 <= temperatureMax <= 28,
\* OUTDOOR_SIGHTSEEING scores 70, the highest score of the ranking; it is the
\* first entry unless SURFING also scores 70 (windSpeedMax >= 25 and
\* temperatureMax > 18), and then SURFING is first and OUTDOOR_SIGHTSEEING second.
C15_OutdoorFirstUnlessSurfingTies ==
    (RankingReturned /\ OutdoorConditions) =>
        /\ ScoreOf("OUTDOOR_SIGHTSEEING") = 70
        /\ Scores[1].score = 70
        /\ IF AtLeast(weather.windSpeedMax, 25) /\ Above(weather.temperatureMax, 18)
           THEN /\ Scores[1].activity = "SURFING"
                /\ Scores[2].activity = "OUTDOOR_SIGHTSEEING"
           ELSE Scores[1].activity = "OUTDOOR_SIGHTSEEING"

\* clear, warm and windy: SURFING and OUTDOOR_SIGHTSEEING both at 70
C15_Witness ==
    /\ RankingReturned
    /\ OutdoorConditions
    /\ weather.windSpeedMax = Num(30)
    /\ Scores[1].activity = "SURFING"
    /\ Scores[2].activity = "OUTDOOR_SIGHTSEEING"
    /\ Scores[2].score = 70

IndoorConditions ==
    /\ Above(weather.precipitation, 4)
    /\ Above(weather.windSpeedMax, 30)

\* C16 as stated: when precipitation > 4 and windSpeedMax > 30,
\* INDOOR_SIGHTSEEING is the first entry of the ranking, for every temperature.
C16_IndoorAlwaysFirst ==
    (RankingReturned /\ IndoorConditions) => Scores[1].activity = "INDOOR_SIGHTSEEING"

\* C16 (amended): when precipitation > 4 and windSpeedMax > 30,
\* INDOOR_SIGHTSEEING scores 60, the highest score of the ranking; it is the
\* first entry unless temperatureMax < 5, and then SKIING (also 60) is first and
\* INDOOR_SIGHTSEEING second.
C16_IndoorFirstUnlessSkiingTies ==
    (RankingReturned /\ IndoorConditions) =>
        /\ ScoreOf("INDOOR_SIGHTSEEING") = 60
        /\ Scores[1].score = 60
        /\ IF Below(weather.temperatureMax, 5)
           THEN /\ Scores[1].activity = "SKIING"
                /\ Scores[2].activity = "INDOOR_SIGHTSEEING"
           ELSE Scores[1].activity = "INDOOR_SIGHTSEEING"

\* heavy rain, strong wind and cold: SKIING first, INDOOR_SIGHTSEEING second
C16_Witness ==
    /\ RankingReturned
    /\ IndoorConditions
    /\ weather.temperatureMax = Num(4)
    /\ Scores[1].activity = "SKIING"
    /\ Scores[2].activity = "INDOOR_SIGHTSEEING"
    /\ Scores[2].score = 60

\* the rules of an activity in declaration order: <<rule satisfied, reason fragment>>
RuleTable(activity) ==
    CASE activity = "SURFING" ->
            << <<AtLeast(weather.windSpeedMax, 25), "Strong wind creates rideable swells">>,
               <<Below(weather.precipitation, 2), "Good visibility, minimal rain">>,
               <<Above(weather.temperatureMax, 18), "Warm enough for extended water time">> >>
      [] activity = "SKIING" ->
            << <<Below(weather.temperatureMax, 5), "Below freezing - excellent snow conditions">>,
               <<Above(weather.precipitation, 2), "Fresh snow accumulation expected">> >>
      [] activity = "OUTDOOR_SIGHTSEEING" ->
            << <<Below(weather.precipitation, 1), "Clear, dry skies perfect for sightseeing">>,
               <<AtLeast(weather.temperatureMax, 18) /\ AtMost(weather.temperatureMax, 28),
                 "Comfortable temperature for walking tours">> >>
      [] activity = "INDOOR_SIGHTSEEING" ->
            << <<Above(weather.precipitation, 4), "Heavy rain makes indoor activities ideal">>,
               <<Above(weather.windSpeedMax, 30), "Strong wind suggests indoor entertainment">> >>

\* the fixed text of an activity no rule of which is satisfied
DefaultReason(activity) ==
    CASE activity = "SURFING" -> "Conditions unfavorable: low wind speed"
      [] activity = "SKIING" -> "Too warm for quality snow conditions"
      [] activity = "OUTDOOR_SIGHTSEEING" -> "Weather conditions limit outdoor touring"
      [] activity = "INDOOR_SIGHTSEEING" -> "Outdoor conditions are favorable"

RECURSIVE SatisfiedText(_, _)
\* the fragments of the satisfied rules, each preceded by " and " except the
\* first one written (first: none has been written yet)
SatisfiedText(rules, first) ==
    IF Len(rules) = 0 THEN ""
    ELSE IF rules[1][1]
         THEN (IF first THEN "" ELSE " and ") \o rules[1][2] \o SatisfiedText(Tail(rules), FALSE)
         ELSE SatisfiedText(Tail(rules), first)

\* C17: an activity's reason is the fragments of exactly the satisfied rules, in
\* rule-declaration order, joined by " and "; with no rule satisfied the score
\* is 0 and the reason is the activity's fixed default text, so the default
\* text appears if and only if the score is 0.
C17_ReasonFromSatisfiedRules ==
    RankingReturned =>
        \A i \in 1..Len(Scores) :
            LET a == Scores[i].activity
                none == \A k \in 1..Len(RuleTable(a)) : ~RuleTable(a)[k][1]
            IN  /\ Scores[i].reason =
                        (IF none THEN DefaultReason(a) ELSE SatisfiedText(RuleTable(a), TRUE))
                /\ none <=> Scores[i].score = 0
                /\ Scores[i].reason = DefaultReason(a) <=> Scores[i].score = 0

\* SURFING with its first and third rule satisfied, next to a SKIING default
C17_Witness ==
    /\ RankingReturned
    /\ \E i, j \in 1..Len(Scores) :
        /\ Scores[i].activity = "SURFING"
        /\ Scores[i].reason =
             "Strong wind creates rideable swells and Warm enough for extended water time"
        /\ Scores[j].activity = "SKIING"
        /\ Scores[j].reason = "Too warm for quality snow conditions"
        /\ Scores[j].score = 0

\* what rankActivitiesForCity returns for a forecast when it runs alone
RankingAlone(data) ==
    LET scores == rankActivities(averageForecast(transformForecast(data)))
    IN  [scores |-> scores, recommended |-> scores[1].activity]

\* C19: under any interleaving of concurrent ranking requests on the shared
\* services, a request returns exactly the ranking its own forecast determines,
\* as if it had run alone, and fails exactly when its own fetch failed.
C19_RequestsIndependent ==
    \A r \in Requests :
        RequestDone(r) =>
            IF reqs[r].forecastData.received
            THEN /\ reqs[r].settled.status = "fulfilled"
                 /\ reqs[r].settled.value = RankingAlone(reqs[r].forecastData.data)
            ELSE reqs[r].settled.status = "rejected"

\* two requests finished with different forecasts and different recommendations,
\* the one started with the colder forecast recommending SKIING
C19_Witness ==
    /\ RequestDone("r1")
    /\ RequestDone("r2")
    /\ reqs["r1"].settled.status = "fulfilled"
    /\ reqs["r2"].settled.status = "fulfilled"
    /\ reqs["r1"].forecastData.data.daily.temperature_2m_max = <<Num(2)>>
    /\ reqs["r2"].forecastData.data.daily.temperature_2m_max = <<Num(18), Num(30)>>
    /\ reqs["r1"].settled.value.recommended = "SKIING"
    /\ reqs["r2"].settled.value.recommended = "SURFING"

\* chars without its trailing white space
RECURSIVE TrimEnd(_)
TrimEnd(chars) ==
    IF Len(chars) > 0 /\ chars[Len(chars)] = " "
    THEN TrimEnd(SubSeq(chars, 1, Len(chars) - 1))
    ELSE chars

\* a part that is a number and nothing else: an optional sign, then digits with
\* at most one '.', white space around it allowed
IsNumericPart(chars) ==
    LET trimmed == TrimEnd(TrimStart(chars))
        body == IF Len(trimmed) > 0 /\ trimmed[1] \in {"-", "+"}
                THEN Tail(trimmed) ELSE trimmed
    IN  /\ \A i \in 1..Len(body) : IsDigit(body[i]) \/ body[i] = "."
        /\ \E i \in 1..Len(body) : IsDigit(body[i])
        /\ Cardinality({i \in 1..Len(body) : body[i] = "."}) <= 1

\* the identifier is exactly two ':'-separated numeric parts, a latitude in
\* [-90, 90] and a longitude in [-180, 180]
WellFormedCityId(id) ==
    LET parts == Split(id)
    IN  /\ Len(parts) = 2
        /\ IsNumericPart(parts[1])
        /\ IsNumericPart(parts[2])
        /\ AtLeast(parseFloat(parts[1]), -90) /\ AtMost(parseFloat(parts[1]), 90)
        /\ AtLeast(parseFloat(parts[2]), -180) /\ AtMost(parseFloat(parts[2]), 180)

ResolverCalled == op \in {"forecast", "activityRanking"}

\* C20: a forecast or activityRanking call whose identifier is not exactly two
\* ':'-separated numeric parts, or whose latitude or longitude is out of range,
\* fails with InvalidCityIdError and reaches no service and no forecast
\* request; the forecast source is only called with in-range coordinates
C20_InvalidIdRejectedBeforeServices ==
    ResolverCalled =>
        /\ ~WellFormedCityId(cityId) =>
              /\ stack = <<>>
              /\ settled.status = "rejected"
              /\ "class" \in DOMAIN settled.value
              /\ settled.value.class = "InvalidCityIdError"
              /\ clientCalls = <<>>
              /\ ~forecastData.received
        /\ \A i \in 1..Len(clientCalls) :
              /\ AtLeast(clientCalls[i][1], -90) /\ AtMost(clientCalls[i][1], 90)
              /\ AtLeast(clientCalls[i][2], -180) /\ AtMost(clientCalls[i][2], 180)

\* the part of C20 the resolvers keep: an identifier parseCoordinates rejects
\* reaches no service, and every forecast request has in-range coordinates
RejectedIdReachesNoService ==
    ResolverCalled =>
        /\ ~parseCoordinates(cityId).ok =>
              /\ stack = <<>>
              /\ settled = Rejected(InvalidCityIdError(cityId))
              /\ clientCalls = <<>>
              /\ ~forecastData.received
        /\ \A i \in 1..Len(clientCalls) :
              /\ AtLeast(clientCalls[i][1], -90) /\ AtMost(clientCalls[i][1], 90)
              /\ AtLeast(clientCalls[i][2], -180) /\ AtMost(clientCalls[i][2], 180)

\* the failure OpenMeteoClient.getForecast throws for an HTTP error message
IsFetchFailure(e) ==
    \E msg \in HttpErrors : e = [name |-> "Error", message |-> "Failed to fetch forecast: " \o msg]

\* a service frame is about to resume from a rejected await
ServiceResumesRejected ==
    /\ op = "rankActivitiesForCity"
    /\ stack # <<>>
    /\ Top \in {"WeatherService.getForecast", "WeatherService.getAverageForecast",
                "ActivityService.rankActivitiesForCity"}
    /\ settled.status = "rejected"

\* C21: when the forecast source fails during rankActivitiesForCity, every
\* service frame hands the very same failure to its caller and the ranker is
\* not invoked; the request ends rejected with that failure, with no scores and
\* no recommended activity.
C21_FetchFailurePropagatedUnchanged ==
    /\ [][ServiceResumesRejected => (settled' = settled /\ weather' = weather)]_vars
    /\ [](op = "rankActivitiesForCity" /\ Done /\ ~forecastData.received =>
            /\ settled.status = "rejected"
            /\ IsFetchFailure(settled.value)
            /\ weather = NoWeather)

\* a ranking request ended with the source's 'Network Error' failure
C21_Witness ==
    /\ op = "rankActivitiesForCity"
    /\ Done
    /\ ~forecastData.received
    /\ settled = Rejected([name |-> "Error",
                           message |-> "Failed to fetch forecast: Network Error"])

\* the operation is a request to a service that fetches a forecast
FetchingRequest == op \in {"getForecast", "getAverageForecast", "rankActivitiesForCity"}

\* C22: from its start to its end, a getForecast, getAverageForecast or
\* rankActivitiesForCity request has called the forecast source exactly once,
\* with the coordinates the request was given, whether the fetch succeeded or
\* failed.
C22_SourceCalledOnce ==
    FetchingRequest => clientCalls = <<coords>>

\* a ranking request for (-34, 18) ended in a failed fetch after one call
C22_Witness ==
    /\ op = "rankActivitiesForCity"
    /\ Done
    /\ settled.status = "rejected"
    /\ clientCalls = << <<Num(-34), Num(18)>> >>

SearchReturned == op = "searchCities" /\ Done

\* the query has no character other than white space
BlankQuery == \A i \in 1..Len(query) : query[i] \in {" ", "\t"}

\* the results the location source answered with
SourceResults == IF searchBody.hasResults THEN searchBody.results ELSE <<>>

FailedWithCityNotFound ==
    /\ settled.status = "rejected"
    /\ "class" \in DOMAIN settled.value
    /\ settled.value.class = "CityNotFoundError"

\* C23: searchCities never returns an empty list; it fails with
\* CityNotFoundError when the location source answers with zero results, and
\* when the query is empty or all white space, in which case the location
\* source is never called.
C23_SearchNeverReturnsEmpty ==
    /\ (op = "searchCities" /\ BlankQuery) => searchCalls = <<>>
    /\ SearchReturned =>
        /\ settled.status = "fulfilled" => Len(settled.value) > 0
        /\ BlankQuery => FailedWithCityNotFound
        /\ (searchBody.received /\ Len(SourceResults) = 0) => FailedWithCityNotFound

\* a search for a query of a space, a tab and a space failed without a call to
\* the location source
C23_Witness ==
    /\ SearchReturned
    /\ query = <<" ", "\t", " ">>
    /\ FailedWithCityNotFound
    /\ searchCalls = <<>>

\* the decimal strings of the ids of the sample results
DecimalText(id) ==
    CASE id = 3369157 -> "3369157"
      [] id = 3374330 -> "3374330"
      [] id = 0 -> "0"

C25_ForecastTransformedPerDay ==
    (Done /\ op = "getForecast" /\ forecastData.received) =>
        LET daily == forecastData.data.daily
        IN  /\ settled.status = "fulfilled"
            /\ Len(settled.value) = Len(daily.time)
            /\ \A i \in 1..Len(daily.time) :
                /\ settled.value[i].date = daily.time[i]
                /\ settled.value[i].temperatureMax = daily.temperature_2m_max[i]
                /\ settled.value[i].temperatureMin = daily.temperature_2m_min[i]
                /\ settled.value[i].precipitation = daily.precipitation_sum[i]
                /\ settled.value[i].windSpeedMax = daily.windspeed_10m_max[i]

\* a two-day forecast whose days differ in every field came back day by day
C25_Witness ==
    /\ Done
    /\ op = "getForecast"
    /\ settled.status = "fulfilled"
    /\ settled.value =
          << [date |-> "2026-02-06", temperatureMax |-> Num(30), temperatureMin |-> Num(10),
              precipitation |-> Num(0), windSpeedMax |-> Num(20)],
             [date |-> "2026-02-07", temperatureMax |-> Num(2), temperatureMin |-> Num(-5),
              precipitation |-> Num(8), windSpeedMax |-> Num(30)] >>

\* C26: for a forecast of exactly one day, getAverageForecast returns that
\* day's temperatureMax, temperatureMin, precipitation and windSpeedMax.
C26_SingleDayAverageIsThatDay ==
    (Done /\ op = "getAverageForecast" /\ forecastData.received /\ ForecastDays = 1) =>
        LET daily == forecastData.data.daily
        IN  /\ settled.status = "fulfilled"
            /\ settled.value = [temperatureMax |-> daily.temperature_2m_max[1],
                                temperatureMin |-> daily.temperature_2m_min[1],
                                precipitation  |-> daily.precipitation_sum[1],
                                windSpeedMax   |-> daily.windspeed_10m_max[1]]

\* the one-day forecast (18, 10, 8, 30) was averaged
C26_Witness ==
    /\ Done
    /\ op = "getAverageForecast"
    /\ ForecastDays = 1
    /\ settled.status = "fulfilled"
    /\ settled.value = [temperatureMax |-> Num(18), temperatureMin |-> Num(10),
                        precipitation |-> Num(8), windSpeedMax |-> Num(30)]

\* twice the sum of a field of the source's forecast over its days
TwiceSum(arr) == SumTwice(arr, 1..ForecastDays)

\* the rules of an activity as <<condition, reason, points>>, each condition
\* 'field OP t' read as (sum of the field over the n days) OP (t * n)
SumRuleTable(activity) ==
    LET n == ForecastDays
        tmax == TwiceSum(forecastData.data.daily.temperature_2m_max)
        prec == TwiceSum(forecastData.data.daily.precipitation_sum)
        wind == TwiceSum(forecastData.data.daily.windspeed_10m_max)
    IN  CASE activity = "SURFING" ->
                << <<wind >= 2 * 25 * n, "Strong wind creates rideable swells", 30>>,
                   <<prec < 2 * 2 * n, "Good visibility, minimal rain", 20>>,
                   <<tmax > 2 * 18 * n, "Warm enough for extended water time", 20>> >>
          [] activity = "SKIING" ->
                << <<tmax < 2 * 5 * n, "Below freezing - excellent snow conditions", 40>>,
                   <<prec > 2 * 2 * n, "Fresh snow accumulation expected", 20>> >>
          [] activity = "OUTDOOR_SIGHTSEEING" ->
                << <<prec < 2 * 1 * n, "Clear, dry skies perfect for sightseeing", 40>>,
                   <<tmax >= 2 * 18 * n /\ tmax <= 2 * 28 * n,
                     "Comfortable temperature for walking tours", 30>> >>
          [] activity = "INDOOR_SIGHTSEEING" ->
                << <<prec > 2 * 4 * n, "Heavy rain makes indoor activities ideal", 40>>,
                   <<wind > 2 * 30 * n, "Strong wind suggests indoor entertainment", 20>> >>

RECURSIVE SatisfiedPoints(_)
SatisfiedPoints(rules) ==
    IF Len(rules) = 0 THEN 0
    ELSE (IF rules[1][1] THEN rules[1][3] ELSE 0) + SatisfiedPoints(Tail(rules))

ObservationsIntact ==
    LET daily == forecastData.data.daily
    IN  /\ Len(observations) = Len(daily.time)
        /\ \A i \in 1..Len(daily.time) :
            observations[i] = [date           |-> daily.time[i],
                               temperatureMax |-> daily.temperature_2m_max[i],
                               temperatureMin |-> daily.temperature_2m_min[i],
                               precipitation  |-> daily.precipitation_sum[i],
                               windSpeedMax   |-> daily.windspeed_10m_max[i]]

\* getAverageForecast is about to resume with the array getForecast built
AveragingStep == stack # <<>> /\ Top = "WeatherService.getAverageForecast"

\* rankActivitiesForCity is about to rank the summary it awaited
RankingStep ==
    /\ stack # <<>>
    /\ Top = "ActivityService.rankActivitiesForCity"
    /\ settled.status = "fulfilled"

\* C28: getAverageForecast leaves the daily observations (and the source's
\* response) as they were, rankActivities leaves the weather summary it was
\* given as it was, and after the request the observations are still the days
\* of the forecast and the summary still their mean.
C28_NoSideEffectsOnInputs ==
    /\ [][AveragingStep => (observations' = observations /\ forecastData' = forecastData)]_vars
    /\ [][RankingStep => (weather' = settled.value /\ observations' = observations
                          /\ forecastData' = forecastData)]_vars
    /\ [](Done /\ op \in {"getAverageForecast", "rankActivitiesForCity"}
               /\ forecastData.received => ObservationsIntact)
    /\ [](Done /\ op = "rankActivitiesForCity" /\ forecastData.received /\ ForecastDays >= 1 =>
            /\ IsMeanOf(weather.temperatureMax,
                        forecastData.data.daily.temperature_2m_max, ForecastDays)
            /\ IsMeanOf(weather.temperatureMin,
                        forecastData.data.daily.temperature_2m_min, ForecastDays)
            /\ IsMeanOf(weather.precipitation,
                        forecastData.data.daily.precipitation_sum, ForecastDays)
            /\ IsMeanOf(weather.windSpeedMax,
                        forecastData.data.daily.windspeed_10m_max, ForecastDays))

\* a ranking request over two days ended with both days still in the array and
\* the summary at their mean
C28_Witness ==
    /\ Done
    /\ op = "rankActivitiesForCity"
    /\ settled.status = "fulfilled"
    /\ Len(observations) = 2
    /\ observations[1].temperatureMax = Num(2)
    /\ observations[2].temperatureMax = Num(18)
    /\ weather.temperatureMax = Num(10)

\* other values a field of the summary could have had
OtherTemperatureMins == {Num(-20), Num(-5), Num(4), Num(5), Num(10), Num(18), Num(30), NaN}
OtherTemperatureMaxs == {Num(-20), Num(4), Num(5), Num(18), Num(19), Num(28), Num(29), NaN}
OtherWindSpeeds == {Num(0), Num(24), Num(25), Num(30), Num(31), Num(60), NaN}

\* the score a ranking gives an activity
ScoreIn(ranking, activity) ==
    LET i == CHOOSE k \in 1..Len(ranking) : ranking[k].activity = activity
    IN  ranking[i].score

\* C29: a summary that differs from the ranked one only in temperatureMin gets
\* the identical ranking (order, scores, reasons), hence the same recommended
\* activity; SKIING's and OUTDOOR_SIGHTSEEING's scores do not change with
\* windSpeedMax, and INDOOR_SIGHTSEEING's does not change with temperatureMax.
C29_TemperatureMinIrrelevant ==
    RankingReturned =>
        /\ \A t \in OtherTemperatureMins :
              /\ rankActivities([weather EXCEPT !.temperatureMin = t]) = Scores
              /\ getRecommendedActivity([weather EXCEPT !.temperatureMin = t])
                    = Scores[1].activity
        /\ \A v \in OtherWindSpeeds :
              LET other == rankActivities([weather EXCEPT !.windSpeedMax = v])
              IN  /\ ScoreIn(other, "SKIING") = ScoreOf("SKIING")
                  /\ ScoreIn(other, "OUTDOOR_SIGHTSEEING") = ScoreOf("OUTDOOR_SIGHTSEEING")
        /\ \A t \in OtherTemperatureMaxs :
              ScoreIn(rankActivities([weather EXCEPT !.temperatureMax = t]),
                      "INDOOR_SIGHTSEEING") = ScoreOf("INDOOR_SIGHTSEEING")

\* a summary with temperatureMax 17 and temperatureMin -5, where SKIING scores
\* only its precipitation points, ranked as the one with temperatureMin 10 is
C29_Witness ==
    /\ RankingReturned
    /\ op = "rankActivities"
    /\ weather = [temperatureMax |-> Num(17), temperatureMin |-> Num(-5),
                  precipitation |-> Half(5), windSpeedMax |-> Num(24)]
    /\ Scores = rankActivities([weather EXCEPT !.temperatureMin = Num(10)])
    /\ ScoreOf("SKIING") = 20

\* the resolver call ended with an error of the given class
FailedWith(class) ==
    /\ settled.status = "rejected"
    /\ "class" \in DOMAIN settled.value
    /\ settled.value.class = class

\* what a resolver puts in front of the message of the error it caught
CatchPrefix ==
    IF op = "forecast"
    THEN "Could not fetch forecast for coordinates " \o Text(cityId) \o ": "
    ELSE "Could not rank activities: "

\* a resolver is about to resume from a rejected service call
ResolverResumesRejected ==
    /\ ResolverCalled
    /\ stack # <<>>
    /\ Top \in {"resolvers.Query.forecast", "resolvers.Query.activityRanking"}
    /\ settled.status = "rejected"

\* C30: a forecast or activityRanking call fails only with InvalidCityIdError,
\* thrown before any service call and as parseCoordinates threw it, or with
\* WeatherFetchError; an error of the service leaves as a WeatherFetchError
\* whose message is the resolver's prefix followed by the original message; a
\* call that succeeds returns the city together with daily, or with scores and
\* recommended.
C30_OnlyInvalidIdOrWeatherFetchError ==
    /\ [][ResolverResumesRejected =>
            settled' = Rejected([class |-> "WeatherFetchError",
                                 name |-> "GraphQLError",
                                 code |-> "WEATHER_FETCH_ERROR",
                                 statusCode |-> 503,
                                 message |-> CatchPrefix \o settled.value.message])]_vars
    /\ []((ResolverCalled /\ Done) =>
            /\ settled.status = "rejected" =>
                  FailedWith("InvalidCityIdError") \/ FailedWith("WeatherFetchError")
            /\ FailedWith("InvalidCityIdError") =>
                  /\ clientCalls = <<>>
                  /\ settled.value.code = "INVALID_CITY_ID"
                  /\ ~forecastData.received
            /\ FailedWith("WeatherFetchError") =>
                  \E msg \in HttpErrors :
                      settled.value.message = CatchPrefix \o "Failed to fetch forecast: " \o msg
            /\ settled.status = "fulfilled" =>
                  DOMAIN settled.value =
                      (IF op = "forecast" THEN {"city", "daily"}
                       ELSE {"city", "scores", "recommended"}))

\* an activityRanking call whose fetch failed with 'Network Error'
C30_Witness ==
    /\ op = "activityRanking"
    /\ Done
    /\ FailedWith("WeatherFetchError")
    /\ settled.value.message =
          "Could not rank activities: Failed to fetch forecast: Network Error"
    /\ clientCalls # <<>>

=============================================================================
